---- MODULE Spec2Model ----
(***************************************************************************)
(* Model of the MandelbrotSet session (MandelbrotSet.c / MandelbrotSet.h). *)
(*                                                                         *)
(* Reals: every coordinate the modelled inputs can produce is a multiple   *)
(* of 1/Unit, and every intermediate value of escapeScore fits well inside *)
(* the 64-bit mantissa of long double, so the C arithmetic is exact on     *)
(* these inputs and is modelled by exact integer arithmetic on numerators  *)
(* over a power-of-two denominator.                                        *)
(*                                                                         *)
(* The recursion of generateDivideAndConquer is modelled by the sequence   *)
(* `work` of pending calls: one Step runs the body of the call at the head *)
(* (base case, border evaluation, pruning fill) and puts its four          *)
(* recursive calls in front of the remaining ones, which is the order in   *)
(* which the C call stack runs them.                                       *)
(***************************************************************************)
EXTENDS Integers, Sequences, FiniteSets, TLC

DEFAULT_MAX_ITERATIONS == 255
ESCAPE_RADIUS_SQ == 4

\* Bounds of the model.
MaxWidth  == 5
MaxHeight == 6
MaxZoom   == 1
MaxIter   == 3

\* Centres offered to setPosition, in quarters: (0,0), (-1,1/4), (0,2), (-1/2,0).
Centers == { <<0, 0>>, <<-4, 1>>, <<0, 8>>, <<-2, 0>> }

\* Values the uninitialised cells of a fresh malloc block may hold.
Garbage == { -1, 2 }

RECURSIVE Pow2(_)
Pow2(n) == IF n = 0 THEN 1 ELSE 2 * Pow2(n - 1)

\* Number of model units in 1.0: fine enough for quarters and for half a
\* pixel at the deepest zoom.
Unit == IF MaxZoom + 1 > 2 THEN Pow2(MaxZoom + 1) ELSE 4

Abs(i) == IF i < 0 THEN -i ELSE i

VARIABLES
    width, height,        \* struct mandelbrotSetData
    center, resolution, top, left,
    pixelScores, maxIterations, isGenerated,
    pc,                   \* "idle", or "fast" inside MandelbrotSet_fastGenerate
    work,                 \* pending generateDivideAndConquer calls
    entry,                \* pixelScores at entry of the running fastGenerate
    written,              \* pixels written so far by the running fastGenerate
    filled,               \* pixels written by a pruning fill in the running call
    faults,               \* access faults seen in the running fastGenerate
    last,                 \* the generateDivideAndConquer body that ran last
    lastCall,             \* most recent of create/setPosition/generate/fastGenerate
    returned              \* what the call just completed returned, if getScores

vars == << width, height, center, resolution, top, left, pixelScores,
           maxIterations, isGenerated, pc, work, entry, written, filled,
           faults, last, lastCall, returned >>

Rect(x, y, w, h) == [x |-> x, y |-> y, w |-> w, h |-> h]

\* <<row, col>> of every pixel of a rectangle
PixelsOf(r) == (r.y .. r.y + r.h - 1) \X (r.x .. r.x + r.w - 1)

InGrid(row, col) == row \in 0 .. height - 1 /\ col \in 0 .. width - 1

NoBody ==
    [kind |-> "none", rect |-> Rect(0, 0, 0, 0), children |-> << >>,
     reads |-> {}, writes |-> {}]

----------------------------------------------------------------------------
(* escapeScore *)

\* xSq + ySq < ESCAPE_RADIUS_SQ fails; x, y are numerators over s.
Escaped(x, y, s) ==
    \/ Abs(x) >= 2 * s
    \/ Abs(y) >= 2 * s
    \/ x * x + y * y >= ESCAPE_RADIUS_SQ * s * s

\* The while loop of escapeScore: the orbit point is (x/s, y/s).  The point
\* reached by the last iteration the bound allows is never looked at.
RECURSIVE escapeLoop(_, _, _, _, _, _, _)
escapeLoop(maxIt, cx, cy, x, y, s, score) ==
    IF score = maxIt \/ Escaped(x, y, s)
    THEN score
    ELSE IF s = 1
         THEN escapeLoop(maxIt, cx, cy, cx, cy, Unit, score + 1)
         ELSE escapeLoop(maxIt, cx, cy,
                         x * x - y * y + cx * ((s * s) \div Unit),
                         2 * x * y + cy * ((s * s) \div Unit),
                         s * s, score + 1)

\* cx, cy in units of 1/Unit
escapeScore(maxIt, cx, cy) ==
    LET xShifted == cx - Unit \div 4
        sqCoordY == cy * cy
        q        == xShifted * xShifted + sqCoordY
    IN  IF 4 * q * (q + xShifted * Unit) < sqCoordY * Unit * Unit
        THEN maxIt
        ELSE escapeLoop(maxIt, cx, cy, 0, 0, 1, 0)

----------------------------------------------------------------------------
(* Grid accesses.  m = [g, written, filled, faults, reads, writes] is the  *)
(* grid together with the record of the accesses made to it: written,      *)
(* filled and faults since the entry of fastGenerate, reads and writes     *)
(* since the entry of the running generateDivideAndConquer body.           *)

Mem(g, w, f, flt) ==
    [g |-> g, written |-> w, filled |-> f, faults |-> flt, reads |-> {}, writes |-> {}]

\* fractal->pixelScores[row][col] = v
Store(m, row, col, v) ==
    IF InGrid(row, col)
    THEN [m EXCEPT !.g[<<row, col>>] = v, !.written = @ \cup {<<row, col>>},
                   !.writes = @ \cup {<<row, col>>}]
    ELSE [m EXCEPT !.faults = @ \cup {"outOfBounds"}]

\* value of fractal->pixelScores[row][col]
Load(m, row, col) == IF InGrid(row, col) THEN m.g[<<row, col>>] ELSE 0

\* the record of a read of fractal->pixelScores[row][col]
Touch(m, row, col) ==
    [m EXCEPT !.reads = @ \cup {<<row, col>>},
              !.faults = @ \cup (IF ~InGrid(row, col) THEN {"outOfBounds"}
                                 ELSE IF <<row, col>> \notin m.written
                                      THEN {"readBeforeWrite"} ELSE {})]

pixelCoordX(col) == left + (resolution * col + resolution \div 2)
pixelCoordY(row) == top - (resolution * row + resolution \div 2)

\* the Escape Scorer's value for a pixel under the current viewport
Score(row, col) == escapeScore(maxIterations, pixelCoordX(col), pixelCoordY(row))

generateSetPixel(m, row, col) == Store(m, row, col, Score(row, col))

RECURSIVE rectangleLoop(_, _, _, _, _, _)
rectangleLoop(m, row, col, startX, endX, endY) ==
    IF row = endY THEN m
    ELSE IF col = endX THEN rectangleLoop(m, row + 1, startX, startX, endX, endY)
    ELSE rectangleLoop(generateSetPixel(m, row, col), row, col + 1, startX, endX, endY)

generateRectangle(m, startX, startY, w, h) ==
    rectangleLoop(m, startY, startX, startX, startX + w, startY + h)

\* blockRowLoop comparing the pixel with its predecessor before computing it
RECURSIVE blockRowLoop_compareFirst(_, _, _, _)
blockRowLoop_compareFirst(m, row, col, colEnd) ==
    IF col = colEnd THEN [isSameColor |-> TRUE, m |-> m]
    ELSE LET m1 == generateSetPixel(m, row, col)
             m2 == IF col > 0 THEN Touch(Touch(m1, row, col), row, col - 1) ELSE m1
         IN  IF col > 0 /\ Load(m, row, col) # Load(m, row, col - 1)
             THEN [isSameColor |-> FALSE, m |-> m2]
             ELSE blockRowLoop_compareFirst(m2, row, col + 1, colEnd)

RECURSIVE blockRowLoop(_, _, _, _)
blockRowLoop(m, row, col, colEnd) ==
    IF col = colEnd THEN [isSameColor |-> TRUE, m |-> m]
    ELSE LET m1 == generateSetPixel(m, row, col)
             m2 == IF col > 0 THEN Touch(Touch(m1, row, col), row, col - 1) ELSE m1
         IN  IF col > 0 /\ Load(m1, row, col) # Load(m1, row, col - 1)
             THEN [isSameColor |-> FALSE, m |-> m2]
             ELSE blockRowLoop(m2, row, col + 1, colEnd)

generateBlockRow(m, row, colStart, w) == blockRowLoop(m, row, colStart, colStart + w)

\* blockColLoop comparing the pixels of the column without computing them
RECURSIVE blockColLoop_noGenerate(_, _, _, _)
blockColLoop_noGenerate(m, col, row, rowEnd) ==
    IF row = rowEnd THEN [isSameColor |-> TRUE, m |-> m]
    ELSE LET m2 == IF row > 0 THEN Touch(Touch(m, row, col), row - 1, col) ELSE m
         IN  IF row > 0 /\ Load(m, row, col) # Load(m, row - 1, col)
             THEN [isSameColor |-> FALSE, m |-> m2]
             ELSE blockColLoop_noGenerate(m2, col, row + 1, rowEnd)

RECURSIVE blockColLoop(_, _, _, _)
blockColLoop(m, col, row, rowEnd) ==
    IF row = rowEnd THEN [isSameColor |-> TRUE, m |-> m]
    ELSE LET m1 == generateSetPixel(m, row, col)
             m2 == IF row > 0 THEN Touch(Touch(m1, row, col), row - 1, col) ELSE m1
         IN  IF row > 0 /\ Load(m1, row, col) # Load(m1, row - 1, col)
             THEN [isSameColor |-> FALSE, m |-> m2]
             ELSE blockColLoop(m2, col, row + 1, rowEnd)

\* generateBlockCol stopping one row short of the bottom row
generateBlockCol_oneShort(m, col, rowStart, h) ==
    blockColLoop(m, col, rowStart, rowStart + h - 1)

generateBlockCol(m, col, rowStart, h) == blockColLoop(m, col, rowStart, rowStart + h)

\* the pruning fill: every interior pixel takes the value of the corner
RECURSIVE fillLoop(_, _, _, _, _, _, _, _)
fillLoop(m, row, col, startCol, endCol, endRow, cornerRow, cornerCol) ==
    IF row = endRow THEN m
    ELSE IF col = endCol
         THEN fillLoop(m, row + 1, startCol, startCol, endCol, endRow, cornerRow, cornerCol)
    ELSE LET m1 == Touch(m, cornerRow, cornerCol)
             m2 == Store(m1, row, col, Load(m1, cornerRow, cornerCol))
             m3 == [m2 EXCEPT !.filled = @ \cup {<<row, col>>}]
         IN  fillLoop(m3, row, col + 1, startCol, endCol, endRow, cornerRow, cornerCol)

\* Quadrants whose right and bottom quadrants do not absorb the remainder
Quadrants_dropsRemainder(startX, startY, w, h) ==
    LET newWidth  == w \div 2
        newHeight == h \div 2
    IN  << Rect(startX, startY, newWidth, newHeight),
           Rect(startX + newWidth, startY, newWidth, newHeight),
           Rect(startX, startY + newHeight, newWidth, newHeight),
           Rect(startX + newWidth, startY + newHeight, newWidth, newHeight) >>

\* Quadrants taking the new height from the width
Quadrants_widthForHeight(startX, startY, w, h) ==
    LET newWidth  == w \div 2
        newHeight == w \div 2
    IN  << Rect(startX, startY, newWidth, newHeight),
           Rect(startX + newWidth, startY, w - newWidth, newHeight),
           Rect(startX, startY + newHeight, newWidth, h - newHeight),
           Rect(startX + newWidth, startY + newHeight, w - newWidth, h - newHeight) >>

\* the four recursive calls of the recursive case, in call order
Quadrants(startX, startY, w, h) ==
    LET newWidth  == w \div 2
        newHeight == h \div 2
    IN  << Rect(startX, startY, newWidth, newHeight),
           Rect(startX + newWidth, startY, w - newWidth, newHeight),
           Rect(startX, startY + newHeight, newWidth, h - newHeight),
           Rect(startX + newWidth, startY + newHeight, w - newWidth, h - newHeight) >>

\* The body of one generateDivideAndConquer call: the memory it leaves, the
\* case it took and the recursive calls it makes.
generateDivideAndConquer(m, startX, startY, w, h) ==
    LET firstRow == startY
        lastRow  == startY + h - 1
        firstCol == startX
        lastCol  == startX + w - 1
    IN
    IF w < 3 \/ h < 3
    THEN [m |-> generateRectangle(m, startX, startY, w, h), kind |-> "base", children |-> << >>]
    ELSE LET t  == generateBlockRow(m, firstRow, firstCol, w)
             b  == IF t.isSameColor THEN generateBlockRow(t.m, lastRow, firstCol, w) ELSE t
             l  == IF b.isSameColor THEN generateBlockCol(b.m, firstCol, firstRow + 1, h - 2) ELSE b
             r  == IF l.isSameColor THEN generateBlockCol(l.m, lastCol, firstRow + 1, h - 2) ELSE l
             canSkip == r.isSameColor
             mc == IF canSkip THEN Touch(r.m, firstRow, firstCol) ELSE r.m
         IN  IF canSkip /\ Load(r.m, firstRow, firstCol) # 0
             THEN [m |-> fillLoop(mc, firstRow + 1, firstCol + 1, firstCol + 1,
                                  firstCol + 1 + w - 2, firstRow + 1 + h - 2,
                                  firstRow, firstCol),
                   kind |-> "prune", children |-> << >>]
             ELSE [m |-> mc, kind |-> "split", children |-> Quadrants(startX, startY, w, h)]

\* generateDivideAndConquer with its recursion: the pending calls run in
\* call order until none is left.
RECURSIVE runCalls(_, _)
runCalls(m, pending) ==
    IF pending = << >> THEN m
    ELSE LET r == Head(pending)
             o == generateDivideAndConquer(m, r.x, r.y, r.w, r.h)
         IN  runCalls(o.m, o.children \o Tail(pending))

----------------------------------------------------------------------------
(* The session and its public operations *)

Resolution(zoom) == Unit \div Pow2(zoom)
Left(c, zoom) == c[1] * (Unit \div 4) - (width * Resolution(zoom)) \div 2
Top(c, zoom)  == c[2] * (Unit \div 4) + (height * Resolution(zoom)) \div 2

\* createMandelbrotSet: the grid cells and the viewport fields come from
\* malloc and are not set, so they hold any of the values a block may hold:
\* any Garbage in the cells, any of the modelled viewports in the fields.
Init ==
    /\ width \in 1 .. MaxWidth
    /\ height \in 1 .. MaxHeight
    /\ maxIterations = DEFAULT_MAX_ITERATIONS
    /\ \E g \in Garbage : pixelScores = [p \in (0 .. height - 1) \X (0 .. width - 1) |-> g]
    /\ center \in Centers
    /\ \E zoom \in 0 .. MaxZoom :
          /\ resolution = Resolution(zoom)
          /\ left = Left(center, zoom)
          /\ top = Top(center, zoom)
    /\ isGenerated = FALSE
    /\ pc = "idle"
    /\ work = << >>
    /\ entry = << >>
    /\ written = {}
    /\ filled = {}
    /\ faults = {}
    /\ last = NoBody
    /\ lastCall = "create"
    /\ returned = "none"

\* setPosition leaving isGenerated as it was
SetPosition_keepsFresh(c, zoom) ==
    /\ pc = "idle"
    /\ center' = c
    /\ resolution' = Resolution(zoom)
    /\ left' = Left(c, zoom)
    /\ top' = Top(c, zoom)
    /\ lastCall' = "setPosition"
    /\ returned' = "none"
    /\ UNCHANGED << width, height, pixelScores, maxIterations, isGenerated, pc,
                    work, entry, written, filled, faults, last >>

SetPosition(c, zoom) ==
    /\ pc = "idle"
    /\ center' = c
    /\ resolution' = Resolution(zoom)
    /\ left' = Left(c, zoom)
    /\ top' = Top(c, zoom)
    /\ isGenerated' = FALSE
    /\ lastCall' = "setPosition"
    /\ returned' = "none"
    /\ UNCHANGED << width, height, pixelScores, maxIterations, pc, work, entry,
                    written, filled, faults, last >>

MandelbrotSet_setPosition == \E c \in Centers, zoom \in 0 .. MaxZoom : SetPosition(c, zoom)

MandelbrotSet_setMaxIterations ==
    /\ pc = "idle"
    /\ \E n \in 1 .. MaxIter : maxIterations' = n
    /\ returned' = "none"
    /\ UNCHANGED << width, height, center, resolution, top, left, pixelScores,
                    isGenerated, pc, work, entry, written, filled, faults, last,
                    lastCall >>

MandelbrotSet_generate ==
    /\ pc = "idle"
    /\ maxIterations <= MaxIter
    /\ pixelScores' = generateRectangle(Mem(pixelScores, {}, {}, {}), 0, 0, width, height).g
    /\ isGenerated' = TRUE
    /\ lastCall' = "generate"
    /\ returned' = "none"
    /\ UNCHANGED << width, height, center, resolution, top, left, maxIterations,
                    pc, work, entry, written, filled, faults, last >>

\* MandelbrotSet_fastGenerate, entry: the call on the whole grid is pending
FastBegin ==
    /\ pc = "idle"
    /\ maxIterations <= MaxIter
    /\ pc' = "fast"
    /\ work' = << Rect(0, 0, width, height) >>
    /\ entry' = pixelScores
    /\ written' = {}
    /\ filled' = {}
    /\ faults' = {}
    /\ last' = NoBody
    /\ returned' = "none"
    /\ UNCHANGED << width, height, center, resolution, top, left, pixelScores,
                    maxIterations, isGenerated, lastCall >>

\* the i-th pending call has run with outcome o
Advance(i, o) ==
    /\ pixelScores' = o.m.g
    /\ written' = o.m.written
    /\ filled' = o.m.filled
    /\ faults' = o.m.faults
    /\ last' = [kind |-> o.kind, rect |-> work[i], children |-> o.children,
                 reads |-> o.m.reads, writes |-> o.m.writes]
    /\ work' = o.children \o SubSeq(work, 1, i - 1) \o SubSeq(work, i + 1, Len(work))
    /\ UNCHANGED << width, height, center, resolution, top, left, maxIterations,
                    isGenerated, pc, entry, lastCall, returned >>

\* run the body of the i-th pending call
RunBody(i) ==
    Advance(i, generateDivideAndConquer(Mem(pixelScores, written, filled, faults),
                                        work[i].x, work[i].y, work[i].w, work[i].h))

\* the next generateDivideAndConquer call in C call order
Step ==
    /\ pc = "fast"
    /\ work # << >>
    /\ RunBody(1)

\* MandelbrotSet_fastGenerate, return
FastEnd ==
    /\ pc = "fast"
    /\ work = << >>
    /\ isGenerated' = TRUE
    /\ pc' = "idle"
    /\ entry' = << >>
    /\ written' = {}
    /\ filled' = {}
    /\ faults' = {}
    /\ last' = NoBody
    /\ lastCall' = "fastGenerate"
    /\ UNCHANGED << width, height, center, resolution, top, left, pixelScores,
                    maxIterations, work, returned >>

MandelbrotSet_getScores ==
    /\ pc = "idle"
    /\ returned' = IF ~isGenerated THEN "NULL" ELSE "scores"
    /\ UNCHANGED << width, height, center, resolution, top, left, pixelScores,
                    maxIterations, isGenerated, pc, work, entry, written, filled,
                    faults, last, lastCall >>

Next ==
    \/ MandelbrotSet_setPosition
    \/ MandelbrotSet_setMaxIterations
    \/ MandelbrotSet_generate
    \/ FastBegin
    \/ Step
    \/ FastEnd
    \/ MandelbrotSet_getScores

Spec == Init /\ [][Next]_vars

\* the quadrant of the whole grid that holds rectangle r, the whole grid
\* for a rectangle that none of them holds
TaskOf(r) ==
    LET whole == Rect(0, 0, width, height)
        q == Quadrants(0, 0, width, height)
        holds == { k \in 1 .. 4 : PixelsOf(r) # {} /\ PixelsOf(r) \subseteq PixelsOf(q[k]) }
    IN  IF r = whole \/ holds = {} THEN whole ELSE q[CHOOSE k \in holds : TRUE]

\* The four quadrant calls made by the call on the whole grid run as
\* concurrent tasks: each runs the bodies of its own recursion in call
\* order (its first pending call is the next one), interleaved with the
\* others body by body.
StepAny ==
    /\ pc = "fast"
    /\ \E i \in 1 .. Len(work) :
          /\ \A j \in 1 .. i - 1 : TaskOf(work[j]) # TaskOf(work[i])
          /\ RunBody(i)

\* The program of main (create, setPosition, fastGenerate, getScores), with
\* the bound set before generating and the quadrant calls run as tasks.
NextPar ==
    \/ (~isGenerated /\ MandelbrotSet_setPosition)
    \/ (~isGenerated /\ MandelbrotSet_setMaxIterations)
    \/ (~isGenerated /\ FastBegin)
    \/ StepAny
    \/ FastEnd
    \/ MandelbrotSet_getScores

SpecPar == Init /\ [][NextPar]_vars

----------------------------------------------------------------------------
(* Whole runs, as the C call stack performs them *)

\* the grid MandelbrotSet_fastGenerate leaves when it starts from grid g
fastGrid(g) == runCalls(Mem(g, {}, {}, {}), << Rect(0, 0, width, height) >>).g

\* the grid MandelbrotSet_generate leaves when it starts from grid g
naiveGrid(g) == generateRectangle(Mem(g, {}, {}, {}), 0, 0, width, height).g

AllPixels == (0 .. height - 1) \X (0 .. width - 1)

BorderOf(r) ==
    { p \in PixelsOf(r) : \/ p[1] = r.y \/ p[1] = r.y + r.h - 1
                          \/ p[2] = r.x \/ p[2] = r.x + r.w - 1 }

\* fastGenerate has run every call and is about to return
FastDone == pc = "fast" /\ work = << >>

\* the body that ran last was handed a rectangle it may prune or split
BigBody == last.kind \in {"prune", "split"}

----------------------------------------------------------------------------
(* Claims *)

\* C1 (as claimed): when fastGenerate has run every call, each pixel holds
\* the score the naive generator writes for it.
C1_FastEqualsNaive == FastDone => pixelScores = naiveGrid(entry)

\* C1 (amended): when fastGenerate has run every call, each pixel that was not
\* written by a pruning fill holds the score the naive generator writes for
\* it, and a grid with a side under 3 has no pixel written by a pruning fill.
C1_FastEqualsNaiveOffFill ==
    FastDone =>
        /\ LET naive == naiveGrid(entry)
           IN  \A p \in AllPixels \ filled : pixelScores[p] = naive[p]
        /\ (width < 3 \/ height < 3) => filled = {}

\* a pruning fill happened and left a score the naive generator does not write
C1_Witness ==
    /\ FastDone
    /\ filled # {}
    /\ \E p \in filled : pixelScores[p] # naiveGrid(entry)[p]

\* C2: between calls the session is Fresh exactly when the most recent of
\* create, setPosition, generate and fastGenerate was a generation;
\* getScores returns the grid when Fresh and NULL when Stale; only
\* setPosition takes Fresh to Stale, only a generation takes Stale to Fresh,
\* and setMaxIterations and getScores leave the flag alone.
C2_FreshIffLastGenerated ==
    /\ [](pc = "idle" => (isGenerated <=> lastCall \in {"generate", "fastGenerate"}))
    /\ [](returned = "scores" => isGenerated)
    /\ [](returned = "NULL" => ~isGenerated)
    /\ [][(isGenerated /\ ~isGenerated') => lastCall' = "setPosition"]_vars
    /\ [][(~isGenerated /\ isGenerated') => lastCall' \in {"generate", "fastGenerate"}]_vars
    /\ [][maxIterations' # maxIterations => isGenerated' = isGenerated]_vars
    /\ [][returned' # "none" =>
            /\ isGenerated' = isGenerated
            /\ returned' = IF isGenerated THEN "scores" ELSE "NULL"]_vars

\* getScores returned the grid after a fastGenerate under a bound that was set
C2_Witness ==
    /\ returned = "scores"
    /\ lastCall = "fastGenerate"
    /\ maxIterations # DEFAULT_MAX_ITERATIONS

\* C3: whenever the session is Fresh every entry of the grid lies in
\* [0, maxIterations] for the session's current maxIterations.
C3_FreshScoresInRange ==
    (pc = "idle" /\ isGenerated) =>
        \A p \in AllPixels : pixelScores[p] >= 0 /\ pixelScores[p] <= maxIterations

\* C4: the grid fastGenerate leaves does not depend on what the grid held at
\* entry: it is the grid fastGenerate leaves when started from an all-zero grid.
C4_FastIgnoresPriorGrid ==
    FastDone => pixelScores = fastGrid([p \in AllPixels |-> 0])

\* fastGenerate ran on a grid left by an earlier generation of another grid
C4_Witness ==
    /\ FastDone
    /\ entry # pixelScores
    /\ \E p, q \in AllPixels : entry[p] # entry[q]
    /\ filled # {}

\* C5: a quadrant call, with everything it recurses into, reads and writes
\* only pixels of its own quadrant, and running the four quadrant calls in
\* any order or interleaving leaves the grid that call order leaves.
C5_QuadrantsIndependent ==
    /\ last.kind # "none" =>
          (last.reads \cup last.writes) \subseteq PixelsOf(TaskOf(last.rect))
    /\ FastDone => pixelScores = fastGrid(entry)

\* C6: a pruned rectangle is bordered by one nonzero score, the score of its
\* top-left corner, and its interior holds that score.
C6_PrunedBorderUniform ==
    last.kind = "prune" =>
        LET corner == pixelScores[<<last.rect.y, last.rect.x>>]
        IN  /\ corner # 0
            /\ \A p \in PixelsOf(last.rect) : pixelScores[p] = corner

\* each border line of r, taken alone, holds one score
LinesUniform(r) ==
    /\ \A c \in r.x + 1 .. r.x + r.w - 1 : Score(r.y, c) = Score(r.y, c - 1)
    /\ \A c \in r.x + 1 .. r.x + r.w - 1 :
           Score(r.y + r.h - 1, c) = Score(r.y + r.h - 1, c - 1)
    /\ \A rw \in r.y + 1 .. r.y + r.h - 2 : Score(rw, r.x) = Score(rw - 1, r.x)
    /\ \A rw \in r.y + 1 .. r.y + r.h - 2 :
           Score(rw, r.x + r.w - 1) = Score(rw - 1, r.x + r.w - 1)

\* C7: a rectangle with both sides at least 3 is pruned exactly when each of
\* its four border lines holds one score and its top-left corner's score is
\* nonzero, and the decision reads no pixel outside the rectangle's border.
C7_PruneDecisionLocal ==
    BigBody =>
        /\ last.kind = "prune" <=>
              (LinesUniform(last.rect) /\ Score(last.rect.y, last.rect.x) # 0)
        /\ last.reads \subseteq BorderOf(last.rect)

\* C8 (as claimed): the body of a call on a rectangle with both sides at
\* least 3 writes the Escape Scorer's value into every border pixel.
C8_BorderFullyEvaluated ==
    BigBody =>
        \A p \in BorderOf(last.rect) :
            p \in last.writes /\ pixelScores[p] = Score(p[1], p[2])

\* C8 (amended): the body writes the Escape Scorer's value into every border
\* pixel when it prunes; when it splits it has written the Escape Scorer's
\* value into the top-left corner and into border pixels only, and it may
\* have stopped at the first pixel that differs from its predecessor.
C8_BorderEvaluatedWhenPruned ==
    /\ last.kind = "prune" =>
          \A p \in BorderOf(last.rect) :
              p \in last.writes /\ pixelScores[p] = Score(p[1], p[2])
    /\ last.kind = "split" =>
          /\ <<last.rect.y, last.rect.x>> \in last.writes
          /\ last.writes \subseteq BorderOf(last.rect)
          /\ \A p \in last.writes : pixelScores[p] = Score(p[1], p[2])

\* a body split its rectangle after evaluating only part of the border
C8_Witness ==
    /\ last.kind = "split"
    /\ last.writes # BorderOf(last.rect)
    /\ Cardinality(last.writes) > 1

\* C9: fastGenerate never reads a pixel it has not yet written, never reads
\* or writes outside the grid, and has written every pixel when it returns.
C9_FastWritesEveryPixel ==
    /\ faults = {}
    /\ written \subseteq AllPixels
    /\ FastDone => written = AllPixels

\* fastGenerate is about to return from a run on a grid it had to split,
\* whose last call compared a pixel with one left of its own rectangle
C9_Witness ==
    /\ FastDone
    /\ width >= 3 /\ height >= 3
    /\ written = AllPixels
    /\ last.rect.w < width
    /\ last.reads \ PixelsOf(last.rect) # {}

\* the quadrants of a split rectangle: four, each at least 1 by 1 and
\* smaller than the rectangle, pairwise disjoint, covering it exactly
GoodSplit(r, q) ==
    /\ Len(q) = 4
    /\ q[1].w = r.w \div 2 /\ q[1].h = r.h \div 2
    /\ q[4].w = r.w - r.w \div 2 /\ q[4].h = r.h - r.h \div 2
    /\ \A i \in 1 .. 4 :
          /\ q[i].w >= 1 /\ q[i].h >= 1
          /\ Cardinality(PixelsOf(q[i])) < Cardinality(PixelsOf(r))
    /\ \A i, j \in 1 .. 4 : i # j => PixelsOf(q[i]) \cap PixelsOf(q[j]) = {}
    /\ UNION { PixelsOf(q[i]) : i \in 1 .. 4 } = PixelsOf(r)

\* an upper bound on the number of generateDivideAndConquer bodies still to
\* run: a call on a pixels runs fewer than 2a bodies
RECURSIVE BodiesLeft(_)
BodiesLeft(pending) ==
    IF pending = << >> THEN 0
    ELSE 2 * Head(pending).w * Head(pending).h - 1 + BodiesLeft(Tail(pending))

\* C10: a rectangle with a side under 3 is evaluated pixel by pixel and not
\* split, a split yields four good quadrants, and fastGenerate terminates:
\* every body it runs lowers the bound on the bodies still to run, which is
\* never negative, and with no call pending fastGenerate returns.
C10_FastTerminates ==
    /\ [](last.kind # "none" =>
            /\ (last.rect.w < 3 \/ last.rect.h < 3) <=> last.kind = "base"
            /\ last.kind = "base" =>
                  /\ last.writes = PixelsOf(last.rect)
                  /\ last.children = << >>
            /\ last.kind = "split" => GoodSplit(last.rect, last.children))
    /\ [](BodiesLeft(work) >= 0 /\ (pc = "idle" => work = << >>))
    /\ [][(pc = "fast" /\ work # << >>) =>
            (pc' = "fast" /\ BodiesLeft(work') < BodiesLeft(work))]_vars
    /\ [][(pc = "fast" /\ work = << >>) => pc' = "idle"]_vars

\* a call split a rectangle with an odd side into four quadrants
C10_Witness ==
    /\ last.kind = "split"
    /\ last.rect.w % 2 = 1
    /\ Len(work) >= 4

====
